---- MODULE Spec2Model ----
(***************************************************************************)
(* ArucoWindow (scripts/aruco_interface.py): a canvas that carries four    *)
(* ArUco markers in its corners and the rescaled input frame in between.   *)
(*                                                                         *)
(* Images are modelled as [h, w, px] with px a function from <<row, col>>  *)
(* to a pixel; the three colour channels of a pixel always carry the same  *)
(* provenance, so a pixel is one record.  numpy's basic slicing and its    *)
(* broadcasting assignment are modelled as numpy defines them (negative    *)
(* indices count from the end, out-of-range bounds are clipped, the value  *)
(* must broadcast to the shape of the target).                             *)
(*                                                                         *)
(* Collaborators that are not code of this repository:                     *)
(*   cv2.aruco.drawMarker  an opaque deterministic tag_size x tag_size     *)
(*                         bitmap per marker id;                           *)
(*   cv2.resize            a pure function of the frame and the target     *)
(*                         size; for a target size with a zero side the    *)
(*                         installed library either rejects the call       *)
(*                         (OpenCV asserts a non-empty dsize) or yields an *)
(*                         empty image (the collaborator of the design     *)
(*                         document): resize_strict, fixed for a run;      *)
(*   cv2.imshow            a sink, the variable shown.                     *)
(***************************************************************************)
EXTENDS Integers, Sequences, FiniteSets, TLC

\* ------------------------------------------------------------------ bounds
MaxTag == 2         \* largest tag_size handed to the constructor (smallest is 0)
MaxBorder == 1      \* largest tag_border (smallest is 0)
MaxRaw == 2         \* largest height and width of a raw input frame
MaxPoints == 1      \* longest list of detected points

\* image_rescale as <<numerator, denominator>>; the values are dyadic, so the
\* float product frame.shape[i]*image_rescale is exact.
Rescales == {<<3, 4>>, <<1, 1>>}

\* x, y and point coordinates arrive as numbers; they are modelled in half
\* units (3 stands for 1.5) so that int() has something to truncate.
CursorXs == {3}
CursorYs == {-1, 3}
Points == {<<3, 3>>}

\* a raw frame is identified by its shape
Frames == [h : 1..MaxRaw, w : 1..MaxRaw]

CursorRadius == 10
PointRadius == 4

VARIABLES
    resize_strict,  \* cv2.resize rejects a target size with a zero side
    constructed,    \* an ArucoWindow object exists
    tag_size, tag_border, image_rescale,
    output_img, img_height, img_width, cursor,
    shown,          \* the image last handed to cv2.imshow
    \* ---- observation of the calls (not program state)
    lastOp,         \* "none", "init", "updateFrame", "updateCursor"
    outcome,        \* "ok" or the step of the last call that raised
    frame,          \* the raw frame of the latest updateFrame call
    dim,            \* <<img_height, img_width>> computed by that call
    relayout,       \* that call entered the re-allocation branch
    lastAcc,        \* dim of the latest call that cv2.resize accepted
    nCalls          \* updateFrame calls so far, 2 meaning two or more

prog == <<resize_strict, constructed, tag_size, tag_border, image_rescale,
          output_img, img_height, img_width, cursor, shown>>
obs == <<lastOp, outcome, frame, dim, relayout, lastAcc, nCalls>>
vars == <<prog, obs>>

\* ------------------------------------------------------------------ pixels
White == [k |-> "white", id |-> 0, r |-> 0, c |-> 0]
CursorColour == [k |-> "cursor", id |-> 0, r |-> 0, c |-> 0]
PointColour == [k |-> "point", id |-> 0, r |-> 0, c |-> 0]

Grid(h, w) == (0..(h - 1)) \X (0..(w - 1))

\* self.output_img = None
NoneImg == [h |-> -1, w |-> -1, px |-> [p \in {} |-> White]]
IsNone(img) == img.h = -1

NoFrame == [h |-> 0, w |-> 0]

\* np.ones((h, w, 3), dtype="uint8")*255
Ones255(h, w) == [h |-> h, w |-> w, px |-> [p \in Grid(h, w) |-> White]]

\* cv2.aruco.drawMarker(arucoDict, id, tag_size, tag, 1)
drawMarker(id, size) ==
    [h |-> size, w |-> size,
     px |-> [p \in Grid(size, size) |-> [k |-> "tag", id |-> id, r |-> p[1], c |-> p[2]]]]

\* cv2.resize(frame, (w, h), interpolation=cv2.INTER_AREA)
resize(f, w, h) ==
    [h |-> h, w |-> w,
     px |-> [p \in Grid(h, w) |->
               [k |-> "frame", id |-> 10 * f.h + f.w, r |-> p[1], c |-> p[2]]]]

\* ------------------------------------------------------------------ numbers
\* int(a/b): truncation toward zero
IntTrunc(a, b) == IF a >= 0 THEN a \div b ELSE -((-a) \div b)

\* round(a/b): nearest integer, ties to even (a >= 0, b > 0)
Round(a, b) ==
    LET q == a \div b
        m == a % b
    IN  IF 2 * m < b THEN q
        ELSE IF 2 * m > b THEN q + 1
        ELSE IF q % 2 = 0 THEN q ELSE q + 1

ScaledDimRound(n, rescale) == Round(n * rescale[1], rescale[2])
\* int(frame.shape[i]*self.image_rescale)
ScaledDim(n, rescale) == IntTrunc(n * rescale[1], rescale[2])

\* ------------------------------------------------------------------ numpy
\* one bound of a basic slice on an axis of length n
Norm(i, n) == IF i < 0 THEN (IF i + n < 0 THEN 0 ELSE i + n)
              ELSE (IF i > n THEN n ELSE i)

\* a[start:stop] on an axis of length n
Slice(start, stop, n) ==
    LET lo == Norm(start, n)
        hi == Norm(stop, n)
    IN  [lo |-> lo, len |-> IF hi > lo THEN hi - lo ELSE 0]

InSlice(i, s) == s.lo <= i /\ i < s.lo + s.len

\* img[rs, cs] = val : val must broadcast to the target's shape
Broadcasts(val, rs, cs) ==
    /\ val.h = rs.len \/ val.h = 1
    /\ val.w = cs.len \/ val.w = 1

SetSlice(img, rs, cs, val) ==
    [img EXCEPT !.px =
        [p \in DOMAIN img.px |->
            IF InSlice(p[1], rs) /\ InSlice(p[2], cs)
            THEN val.px[<<IF val.h = 1 THEN 0 ELSE p[1] - rs.lo,
                          IF val.w = 1 THEN 0 ELSE p[2] - cs.lo>>]
            ELSE img.px[p]]]

\* a step of a call: ok, the step that raised, the buffer so far
Step(ok, site, img) == [ok |-> ok, site |-> site, img |-> img]

Assign(s, rs, cs, val, site) ==
    IF ~s.ok THEN s
    ELSE IF ~Broadcasts(val, rs, cs) THEN Step(FALSE, site, s.img)
    ELSE Step(TRUE, "ok", SetSlice(s.img, rs, cs, val))

\* ------------------------------------------------------------------ layout
\* shape of the buffer initFrame allocates
CanvasH(ih, tb) == ih + 2 * tb
CanvasWNarrow(iw, ts, tb) == iw + 2 * ts + 2 * tb
CanvasW(iw, ts, tb) == iw + 2 * ts + 4 * tb

\* the index expressions of addCornerTags, on a buffer of shape H x W
ULRows(ts, tb, H) == Slice(tb, ts + tb, H)
ULCols(ts, tb, W) == Slice(tb, ts + tb, W)
URRows(ts, tb, H) == Slice(tb, ts + tb, H)
URCols(ts, tb, iw, W) == Slice(3 * tb + ts + iw, -tb, W)
BRRows(ts, tb, H) == Slice(-(ts + tb), -tb, H)
BRCols(ts, tb, iw, W) == Slice(3 * tb + ts + iw, -tb, W)
BLRowsTop(ts, tb, H) == Slice(tb, ts + tb, H)
BLRows(ts, tb, H) == Slice(-(ts + tb), -tb, H)
BLCols(ts, tb, W) == Slice(tb, ts + tb, W)

\* the index expressions of the interior write of updateFrame
InteriorRows(tb, H) == Slice(tb, -tb, H)
InteriorCols(ts, tb, W) == Slice(2 * tb + ts, -(2 * tb + ts), W)

\* ------------------------------------------------------------------ methods
ValidConfig == tag_size > 0 /\ tag_border >= 0 /\ image_rescale[1] > 0

\* __init__: parameters are stored as given, nothing is checked
Construct ==
    /\ ~constructed
    /\ \E ts \in 0..MaxTag, tb \in 0..MaxBorder, rs \in Rescales :
        /\ tag_size' = ts
        /\ tag_border' = tb
        /\ image_rescale' = rs
    /\ constructed' = TRUE
    /\ output_img' = NoneImg
    /\ img_height' = 0
    /\ img_width' = 0
    /\ cursor' = <<0, 0>>
    /\ lastOp' = "init"
    /\ outcome' = "ok"
    /\ UNCHANGED <<resize_strict, shown, frame, dim, relayout, lastAcc, nCalls>>

\* initFrame: np.ones rejects a negative dimension, output_img then keeps
\* its old value
initFrame(old, ih, iw, ts, tb) ==
    IF CanvasH(ih, tb) < 0 \/ CanvasW(iw, ts, tb) < 0
    THEN Step(FALSE, "initFrame", old)
    ELSE Step(TRUE, "ok", Ones255(CanvasH(ih, tb), CanvasW(iw, ts, tb)))

\* addCornerTags: np.zeros rejects a negative tag_size; the four
\* assignments run in the order UL, UR, BR, BL and the first one whose
\* value does not broadcast raises
addCornerTags(s, iw, ts, tb) ==
    IF ~s.ok THEN s
    ELSE IF ts < 0 THEN Step(FALSE, "addCornerTags", s.img)
    ELSE
      LET H == s.img.h
          W == s.img.w
          a1 == Assign(s, ULRows(ts, tb, H), ULCols(ts, tb, W),
                       drawMarker(0, ts), "addCornerTags")
          a2 == Assign(a1, URRows(ts, tb, H), URCols(ts, tb, iw, W),
                       drawMarker(1, ts), "addCornerTags")
          a3 == Assign(a2, BRRows(ts, tb, H), BRCols(ts, tb, iw, W),
                       drawMarker(2, ts), "addCornerTags")
          a4 == Assign(a3, BLRows(ts, tb, H), BLCols(ts, tb, W),
                       drawMarker(3, ts), "addCornerTags")
      IN  a4

\* the comparison that decides the re-allocation
SizeChangedHeightOnly(h, w, ih, iw) == h # ih
SizeChanged(h, w, ih, iw) == (h # ih) \/ (w # iw)

\* the tracked size after the re-allocation branch was entered
Tracked(h, w, ih, iw) == <<h, w>>

\* the interior write: None does not support item assignment
writeInterior(s, resized, ts, tb) ==
    IF ~s.ok THEN s
    ELSE IF IsNone(s.img) THEN Step(FALSE, "interiorNone", s.img)
    ELSE Assign(s, InteriorRows(tb, s.img.h), InteriorCols(ts, tb, s.img.w),
                resized, "interior")

\* updateFrame(frame)
updateFrame(f) ==
    /\ constructed
    /\ LET h == ScaledDim(f.h, image_rescale)
           w == ScaledDim(f.w, image_rescale)
           rejected == (h <= 0 \/ w <= 0) /\ resize_strict
           changed == SizeChanged(h, w, img_height, img_width)
           tracked == IF changed THEN Tracked(h, w, img_height, img_width)
                      ELSE <<img_height, img_width>>
           laid == IF changed
                   THEN addCornerTags(
                          initFrame(output_img, tracked[1], tracked[2],
                                    tag_size, tag_border),
                          tracked[2], tag_size, tag_border)
                   ELSE Step(TRUE, "ok", output_img)
           done == writeInterior(laid, resize(f, w, h), tag_size, tag_border)
       IN
        /\ lastOp' = "updateFrame"
        /\ frame' = f
        /\ dim' = <<h, w>>
        /\ nCalls' = IF nCalls < 2 THEN nCalls + 1 ELSE 2
        /\ IF rejected
           THEN /\ outcome' = "resize"
                /\ relayout' = FALSE
                /\ lastAcc' = lastAcc
                /\ UNCHANGED <<output_img, img_height, img_width, shown>>
           ELSE /\ outcome' = done.site
                /\ relayout' = changed
                /\ lastAcc' = <<h, w>>
                /\ img_height' = tracked[1]
                /\ img_width' = tracked[2]
                /\ output_img' = done.img
                /\ shown' = IF done.ok THEN done.img ELSE shown
    /\ UNCHANGED <<resize_strict, constructed, tag_size, tag_border,
                   image_rescale, cursor>>

UpdateFrame == \E f \in Frames : updateFrame(f)

\* cv2.circle(img, center, radius, colour, -1): a filled disc, clipped to
\* the image; center is (x, y) = (column, row)
circle(img, center, radius, colour) ==
    [img EXCEPT !.px =
        [p \in DOMAIN img.px |->
            IF (p[2] - center[1]) * (p[2] - center[1])
                 + (p[1] - center[2]) * (p[1] - center[2]) <= radius * radius
            THEN colour ELSE img.px[p]]]

RECURSIVE drawCorners(_, _)
drawCorners(img, corners) ==
    IF corners = <<>> THEN img
    ELSE drawCorners(
           circle(img, <<IntTrunc(Head(corners)[1], 2), IntTrunc(Head(corners)[2], 2)>>,
                  PointRadius, PointColour),
           Tail(corners))

\* the buffer after updateCursor drew on disp: disp is a copy, the buffer
\* is not touched
BufferAfterDrawAliased(buf, disp) == disp
BufferAfterDraw(buf, disp) == buf

\* updateCursor(x, y, corners)
updateCursor(x, y, corners) ==
    /\ constructed
    /\ lastOp' = "updateCursor"
    /\ cursor' = <<IntTrunc(x, 2), IntTrunc(y, 2)>>
    /\ IF IsNone(output_img)
       THEN /\ outcome' = "copy"
            /\ UNCHANGED <<output_img, shown>>
       ELSE LET disp == drawCorners(
                          circle(output_img, cursor', CursorRadius, CursorColour),
                          corners)
            IN  /\ outcome' = "ok"
                /\ output_img' = BufferAfterDraw(output_img, disp)
                /\ shown' = disp
    /\ UNCHANGED <<resize_strict, constructed, tag_size, tag_border,
                   image_rescale, img_height, img_width,
                   frame, dim, relayout, lastAcc, nCalls>>

PointLists == UNION {[1..n -> Points] : n \in 0..MaxPoints}

UpdateCursor == \E x \in CursorXs, y \in CursorYs, corners \in PointLists :
                    updateCursor(x, y, corners)

Init ==
    /\ resize_strict \in BOOLEAN
    /\ constructed = FALSE
    /\ tag_size = 0
    /\ tag_border = 0
    /\ image_rescale = <<1, 1>>
    /\ output_img = NoneImg
    /\ img_height = 0
    /\ img_width = 0
    /\ cursor = <<0, 0>>
    /\ shown = NoneImg
    /\ lastOp = "none"
    /\ outcome = "ok"
    /\ frame = NoFrame
    /\ dim = <<0, 0>>
    /\ relayout = FALSE
    /\ lastAcc = <<0, 0>>
    /\ nCalls = 0

Next == Construct \/ UpdateFrame \/ UpdateCursor

Spec == Init /\ [][Next]_vars

\* ------------------------------------------------------------------ claims
\* val sits, whole and unmodified, in img with its top-left pixel at
\* row r0, column c0
HoldsAt(img, r0, c0, val) ==
    \A p \in DOMAIN val.px :
        /\ <<r0 + p[1], c0 + p[2]>> \in DOMAIN img.px
        /\ img.px[<<r0 + p[1], c0 + p[2]>>] = val.px[p]

Cells(rs, cs) == (rs.lo..(rs.lo + rs.len - 1)) \X (cs.lo..(cs.lo + cs.len - 1))

\* the five regions the program writes on a buffer of shape H x W
Regions(ts, tb, iw, H, W) ==
    <<Cells(ULRows(ts, tb, H), ULCols(ts, tb, W)),
      Cells(URRows(ts, tb, H), URCols(ts, tb, iw, W)),
      Cells(BRRows(ts, tb, H), BRCols(ts, tb, iw, W)),
      Cells(BLRows(ts, tb, H), BLCols(ts, tb, W)),
      Cells(InteriorRows(tb, H), InteriorCols(ts, tb, W))>>

PairwiseDisjoint(regs) ==
    \A i \in 1..Len(regs), j \in 1..Len(regs) :
        i < j => regs[i] \cap regs[j] = {}

\* C1: whenever updateFrame returns on a valid configuration, the canvas it
\* displays holds the resized latest frame at row tag_border, column
\* 2*tag_border + tag_size, and the complete marker bitmaps 0..3 in the
\* UL, UR, BR and BL corner regions.
C1_DisplayedCanvasExact ==
    (ValidConfig /\ lastOp = "updateFrame" /\ outcome = "ok") =>
        /\ ~IsNone(shown)
        /\ HoldsAt(shown, tag_border, 2 * tag_border + tag_size,
                   resize(frame, dim[2], dim[1]))
        /\ HoldsAt(shown, tag_border, tag_border, drawMarker(0, tag_size))
        /\ HoldsAt(shown, tag_border, shown.w - tag_border - tag_size,
                   drawMarker(1, tag_size))
        /\ HoldsAt(shown, shown.h - tag_border - tag_size,
                   shown.w - tag_border - tag_size, drawMarker(2, tag_size))
        /\ HoldsAt(shown, shown.h - tag_border - tag_size, tag_border,
                   drawMarker(3, tag_size))

C3_FirstUpdateRelayouts == (ValidConfig /\ nCalls = 1) => relayout

\* C4: an updateCursor call changes neither the canvas buffer nor the
\* tracked frame size.
C4_CursorKeepsBuffer ==
    [][lastOp' = "updateCursor" =>
          /\ output_img' = output_img
          /\ img_height' = img_height
          /\ img_width' = img_width]_vars

C4_Witness ==
    /\ lastOp = "updateCursor" /\ outcome = "ok"
    /\ \E p \in DOMAIN shown.px : shown.px[p] = CursorColour
    /\ \A p \in DOMAIN output_img.px : output_img.px[p] # CursorColour

\* C5: on a valid configuration the allocated canvas is
\* img_width + 2*tag_size + 4*tag_border wide and img_height + 2*tag_border
\* high, the frame size (0, 0) included.
C5_CanvasSizeLaw ==
    (ValidConfig /\ ~IsNone(output_img)) =>
        /\ output_img.w = img_width + 2 * tag_size + 4 * tag_border
        /\ output_img.h = img_height + 2 * tag_border

C5_Witness ==
    /\ ValidConfig /\ ~IsNone(output_img) /\ relayout
    /\ img_height = 0 /\ img_width = 0
    /\ output_img.w = 2 * tag_size + 4 * tag_border

C7_InteriorWriteFits ==
    (ValidConfig /\ lastOp = "updateFrame" /\ outcome \in {"ok", "interior"}) =>
        /\ outcome = "ok"
        /\ InteriorRows(tag_border, output_img.h) =
               [lo |-> tag_border, len |-> dim[1]]
        /\ InteriorCols(tag_size, tag_border, output_img.w) =
               [lo |-> 2 * tag_border + tag_size, len |-> dim[2]]

\* C8: no window object with tag_size <= 0 exists.
C8_NoWindowWithBadTagSize == constructed => tag_size > 0

\* C9 as stated: updateFrame scales each side of the frame by rounding
\* side * image_rescale to the nearest integer.
C9_ScaledByRounding ==
    (ValidConfig /\ nCalls >= 1) =>
        dim = <<Round(frame.h * image_rescale[1], image_rescale[2]),
                Round(frame.w * image_rescale[1], image_rescale[2])>>

\* C9 amended: updateFrame scales each side of the frame by truncating
\* side * image_rescale: the scaled side d is the integer with
\* d <= side * image_rescale < d + 1, and it is the size the window tracks
\* once cv2.resize accepted it.
C9_ScaledByTruncation ==
    (nCalls >= 1) =>
        /\ dim[1] * image_rescale[2] <= frame.h * image_rescale[1]
        /\ frame.h * image_rescale[1] < (dim[1] + 1) * image_rescale[2]
        /\ dim[2] * image_rescale[2] <= frame.w * image_rescale[1]
        /\ frame.w * image_rescale[1] < (dim[2] + 1) * image_rescale[2]
        /\ (lastOp = "updateFrame" /\ outcome # "resize") =>
               <<img_height, img_width>> = dim

C9_Witness ==
    /\ nCalls >= 1 /\ lastOp = "updateFrame" /\ outcome = "ok"
    /\ dim[1] # Round(frame.h * image_rescale[1], image_rescale[2])
    /\ <<img_height, img_width>> = dim

\* C10: an updateFrame call that raises leaves the canvas buffer and the
\* tracked frame size as they were before the call.
C10_FailedUpdateKeepsState ==
    [][(ValidConfig /\ lastOp' = "updateFrame" /\ outcome' # "ok") =>
          /\ output_img' = output_img
          /\ img_height' = img_height
          /\ img_width' = img_width]_vars

====
